---- MODULE Spec2Model ----
(***************************************************************************)
(* Model of the UltraSearch TypeScript examples.                           *)
(*                                                                         *)
(*  - the pagination walk of Example 5, fetchAllTransactionsWithPagination *)
(*    (examples/typescript/src/index.ts), run against a finite scripted    *)
(*    server that hands out one page per pagination token;                 *)
(*  - the request helper searchTransactions (same file), called once with  *)
(*    an arbitrary SearchParams object, against the parameter rules the    *)
(*    documentation states for the searchTransactions method;              *)
(*  - the patterns of the pagination guide (CONTRIBUTING.md): the retry    *)
(*    wrappers, ResumableDownloader and parallelPagination;                *)
(*  - the polling loop monitorLatestTransactions (BASIC_SEARCH.md).        *)
(***************************************************************************)
EXTENDS Integers, Sequences, FiniteSets, TLC

(***************************************************************************)
(* Bounds of the model                                                     *)
(***************************************************************************)
\* largest number of pages the scripted server holds
MaxPages == 4
\* largest number of records in one page
MaxPageLen == 2
\* largest slot number used for fromBlock / toBlock in a single call
MaxSlot == 2
\* the scripted servers number their token slots from 0..MaxTokenSeed on
MaxTokenSeed == 1
\* a request of fetchWithRateLimit is answered 429 only while it has issued
\* fewer than MaxAttempts requests
MaxAttempts == 4
\* the downloader program is started at most MaxRuns times
MaxRuns == 2
\* the monitor is followed over at most MaxPolls polls
MaxPolls == 4
\* at most MaxFeed transactions come to exist while the monitor runs
MaxFeed == 3

(***************************************************************************)
(* Program constants                                                       *)
(***************************************************************************)
\* index.ts:310  if (pageCount >= 3) break
DemoPageLimit == 3
\* search-transactions-req.ts:114  Signatures mode: max 1000
SignaturesMaxLimit == 1000
\* search-transactions-req.ts:115  Full mode: max 100
FullMaxLimit == 100
\* search-transactions-req.ts:114  Signatures mode: default 1000
SignaturesDefaultLimit == 1000
\* search-transactions-req.ts:115  Full mode: default 100
FullDefaultLimit == 100
\* FULL_TRANSACTIONS.md:607  "automatically selects a 5000-block window"
DefaultWindowSize == 5000
\* CONTRIBUTING.md:813  fetchPageWithRetry(params, maxRetries = 3)
maxRetries == 3
\* BASIC_SEARCH.md:300  const MAX_RETRIES = 3
MAX_RETRIES == 3

VARIABLES
    server,           \* the scripted server: pages, where and how it fails
    served,           \* pages the server has handed out, in order
    pc,               \* position of fetchAllTransactionsWithPagination
    allTransactions,  \* index.ts:277
    paginationToken,  \* index.ts:278
    pageCount,        \* index.ts:279
    requests,         \* request bodies POSTed by the walk, in order
    responses,        \* responses the walk has received, in order
    thrown,           \* error raised out of the walk, NoError if none
    completed,        \* the "Completed!" line of index.ts:316 was printed
    callPc,           \* position of a single searchTransactions call
    callParams,       \* params of the single call
    callResponse,     \* response body of the single call
    callOutcome,      \* what the single call returned or threw
    callPosts,        \* number of HTTP POSTs the single call has issued
    callResolved,     \* what the API applied to the request of the single call
    chain,            \* latest slot and first indexed slot known to the API
    policy,           \* which retry wrapper of the guides is running
    retryParams,      \* the params argument of the wrapper
    retries,          \* let retries = 0 of the wrapper
    attempts,         \* params of the requests the wrapper has issued, in order
    retryPc,          \* position of the wrapper
    retryOutcome,     \* what the wrapper returned or threw
    waits,            \* milliseconds of the sleeps of the wrapper, in order
    runs,             \* number of times the downloader program was started
    dlPc,             \* position of ResumableDownloader.download
    state,            \* ResumableDownloader.state
    file,             \* contents of download-state.json
    batch,            \* response of the page being processed
    dlSent,           \* tokens of the requests of the downloader, with their run
    processed,        \* batches handed to processBatch that succeeded, with run
    dataset,          \* transactions the API holds, as (slot, index) pairs
    pageCap,          \* most records the API puts in one page
    shardPc,          \* position of each downloadRange call
    shardToken,       \* let paginationToken of each downloadRange call
    shardAll,         \* let allTransactions of each downloadRange call
    shardSent,        \* params sent by each downloadRange call, in order
    shardGot,         \* responses received by each downloadRange call, in order
    results,          \* results.flat() of parallelPagination, once resolved
    feed,             \* number of transactions the API knows, newest = feed
    lastSignature,    \* let lastSignature of monitorLatestTransactions
    handed,           \* arguments of the processTransactions calls, in order
    polls,            \* number of fetchLatestSignatures calls answered
    monPc             \* position of monitorLatestTransactions

walkVars == <<server, served, pc, allTransactions, paginationToken, pageCount,
              requests, responses, thrown, completed>>
callVars == <<callPc, callParams, callResponse, callOutcome, callPosts,
              callResolved, chain>>
vars == <<server, served, pc, allTransactions, paginationToken, pageCount,
          requests, responses, thrown, completed,
          callPc, callParams, callResponse, callOutcome, callPosts,
          callResolved, chain,
          policy, retryParams, retries, attempts, retryPc, retryOutcome,
          waits,
          runs, dlPc, state, file, batch, dlSent, processed,
          dataset, pageCap, shardPc, shardToken, shardAll, shardSent, shardGot,
          results,
          feed, lastSignature, handed, polls, monPc>>
retryVars == <<policy, retryParams, retries, attempts, retryPc, retryOutcome,
               waits>>
dlVars == <<runs, dlPc, state, file, batch, dlSent, processed>>
shardVars == <<dataset, pageCap, shardPc, shardToken, shardAll, shardSent, shardGot,
               results>>
monitorVars == <<feed, lastSignature, handed, polls, monPc>>
guideVars == <<retryVars, dlVars, shardVars, monitorVars>>

(***************************************************************************)
(* Values                                                                  *)
(***************************************************************************)
\* paginationToken: null (index.ts:278, "null if no more results")
Null == <<>>
\* what reading a member that the response does not have yields (undefined)
Undefined == <<0>>
\* the token "slot:transactionIndex" issued with page k, as the pair of its
\* two numbers; servers with different seeds issue different tokens
TokenOfPage(srv, k) == <<srv.tokenSeed + k, k>>
NoError == [kind |-> "none", message |-> ""]

Min(a, b) == IF a <= b THEN a ELSE b

\* Error Handling / Common Error Codes (API reference)
RpcErrors ==
    { [code |-> 429, message |-> "Rate limit exceeded"],
      [code |-> -32603, message |-> "Internal error"] }

\* the ways a request can fail: an error response, or axios.post rejecting
Failures ==
    { [kind |-> "rpc", error |-> e] : e \in RpcErrors }
      \cup { [kind |-> "transport", error |-> [code |-> 0, message |-> "Network Error"]] }

NoFailure == [kind |-> "none", error |-> [code |-> 0, message |-> ""]]

(***************************************************************************)
(* The scripted server                                                     *)
(***************************************************************************)
\* records of page k: pageLen[k] distinct records, in server order
PageRecords(srv, k) == [i \in 1..srv.pageLen[k] |-> <<k, i>>]

\* token returned with page k: non-null on every page but the last
PageToken(srv, k) == IF k < srv.numPages THEN TokenOfPage(srv, k) ELSE Null

\* the page a request asks for: page 1 without token (null, or undefined,
\* which JSON leaves out of the body), else the page after the one that
\* issued the token
PageForToken(srv, tok) ==
    IF tok \in {Null, Undefined} THEN 1 ELSE tok[1] - srv.tokenSeed + 1

\* result member of a success response
ServerResult(srv, tok) ==
    [data |-> PageRecords(srv, PageForToken(srv, tok)),
     paginationToken |-> PageToken(srv, PageForToken(srv, tok))]

\* servers with n pages that fail at page f in the way fl
ServersWith(n, fs, fls) ==
    { [numPages |-> n, pageLen |-> pl, failAt |-> f, failure |-> fl,
       tokenSeed |-> sd] :
        pl \in [1..n -> 0..MaxPageLen], f \in fs, fl \in fls,
        sd \in 0..MaxTokenSeed }

Servers ==
    UNION { ServersWith(n, {0}, {NoFailure}) \cup ServersWith(n, 1..n, Failures) :
              n \in 1..MaxPages }

\* does the server answer the request carrying token tok with a failure
ServerFails(srv, tok) == srv.failAt = PageForToken(srv, tok)

(***************************************************************************)
(* fetchAllTransactionsWithPagination (index.ts:274-319)                   *)
(***************************************************************************)
\* variant: the token of the previous response is not passed on
WalkParams_NoToken(tok) ==
    [accountInclude |-> <<"EPjFWdd5AufqSSqeM2qN1xzybapC8G4wEGGkZwyTDt1v">>,
     fromBlock |-> 394940000,
     toBlock |-> 394940500,
     limit |-> 100,
     paginationToken |-> Null]

\* variant: follow-up pages are requested with a larger limit
WalkParams_LimitChanges(tok) ==
    [accountInclude |-> <<"EPjFWdd5AufqSSqeM2qN1xzybapC8G4wEGGkZwyTDt1v">>,
     fromBlock |-> 394940000,
     toBlock |-> 394940500,
     limit |-> IF tok = Null THEN 100 ELSE 1000,
     paginationToken |-> tok]

\* index.ts:289-297  the params literal of the loop body
WalkParams(tok) ==
    [accountInclude |-> <<"EPjFWdd5AufqSSqeM2qN1xzybapC8G4wEGGkZwyTDt1v">>,
     fromBlock |-> 394940000,
     toBlock |-> 394940500,
     limit |-> 100,
     paginationToken |-> tok]

\* index.ts:285-298  const requestBody
WalkRequestBody(count, tok) ==
    [jsonrpc |-> "2.0", id |-> count, method |-> "searchTransactions",
     params |-> WalkParams(tok)]

\* variant: the new page is put in front (unshift instead of push)
PushAll_Front(all, data) == data \o all

\* index.ts:302  allTransactions.push(...result.data)
PushAll(all, data) == all \o data

\* variant: an empty page is taken for the end of the results
NextToken_EmptyEnds(result) ==
    IF Len(result.data) = 0 THEN Null ELSE result.paginationToken

\* index.ts:303  paginationToken = result.paginationToken
NextToken(result) == result.paginationToken

\* variant: off by one, the break comes one page late
DemoLimitReached_Late(count) == count > DemoPageLimit

\* variant: the demo limit has been removed
DemoLimitReached_Never(count) == FALSE

\* index.ts:310  if (pageCount >= 3) break
DemoLimitReached(count) == count >= DemoPageLimit

\* variant: the loop test is inverted
LoopCondition_Inverted(tok) == tok = Null

\* variant: the loop also ends when the token names slot 2
LoopCondition_ReadsSlot(tok) == tok # Null /\ tok[1] # 2

\* index.ts:314  while (paginationToken !== null)
LoopCondition(tok) == tok # Null

\* index.ts:45  throw new Error(response.data.error.message)
RpcErrorThrown(err) == [kind |-> "Error", message |-> err.message]

\* index.ts:49-52  catch (error) { ...; throw error } of a rejected axios.post
TransportErrorThrown(err) == [kind |-> "AxiosError", message |-> err.message]

\* the request the walk is waiting on
LastRequest == requests[Len(requests)]

WalkInit ==
    /\ server \in Servers
    /\ served = <<>>
    /\ pc = "loop"
    /\ allTransactions = <<>>
    /\ paginationToken = Null
    /\ pageCount = 0
    /\ requests = <<>>
    /\ responses = <<>>
    /\ thrown = NoError
    /\ completed = FALSE

\* variant: the request is sent twice without waiting for the first answer
FetchPage_Prefetch ==
    /\ pc = "loop"
    /\ pageCount' = pageCount + 1
    /\ requests' = Append(Append(requests,
                                 WalkRequestBody(pageCount + 1, paginationToken)),
                          WalkRequestBody(pageCount + 1, paginationToken))
    /\ pc' = "await"
    /\ UNCHANGED <<server, served, allTransactions, paginationToken, responses,
                   thrown, completed>>
    /\ UNCHANGED callVars
    /\ UNCHANGED guideVars

\* index.ts:281-300 and 37: top of the do body up to the POST of the request
FetchPage ==
    /\ pc = "loop"
    /\ pageCount' = pageCount + 1
    /\ requests' = Append(requests, WalkRequestBody(pageCount + 1, paginationToken))
    /\ pc' = "await"
    /\ UNCHANGED <<server, served, allTransactions, paginationToken, responses,
                   thrown, completed>>
    /\ UNCHANGED callVars
    /\ UNCHANGED guideVars

\* variant: the demo limit only logs, the loop goes on while there is a token
ReceiveResult_NoBreak ==
    /\ pc = "await"
    /\ ~ServerFails(server, LastRequest.params.paginationToken)
    /\ LET result == ServerResult(server, LastRequest.params.paginationToken)
           tok == NextToken(result)
       IN /\ served' = Append(served,
                                 PageForToken(server, LastRequest.params.paginationToken))
          /\ responses' = Append(responses, [result |-> result])
          /\ allTransactions' = PushAll(allTransactions, result.data)
          /\ paginationToken' = tok
          /\ IF LoopCondition(tok)
               THEN pc' = "loop" /\ completed' = completed
               ELSE pc' = "done" /\ completed' = TRUE
    /\ UNCHANGED <<server, pageCount, requests, thrown>>
    /\ UNCHANGED callVars
    /\ UNCHANGED guideVars

\* index.ts:43-48 and 300-318: a success response arrives; the rest of the
\* loop body, the loop test and, when the loop ends, the closing log line
ReceiveResult ==
    /\ pc = "await"
    /\ ~ServerFails(server, LastRequest.params.paginationToken)
    /\ LET result == ServerResult(server, LastRequest.params.paginationToken)
           tok == NextToken(result)
       IN /\ served' = Append(served,
                                 PageForToken(server, LastRequest.params.paginationToken))
          /\ responses' = Append(responses, [result |-> result])
          /\ allTransactions' = PushAll(allTransactions, result.data)
          /\ paginationToken' = tok
          /\ IF ~DemoLimitReached(pageCount) /\ LoopCondition(tok)
               THEN pc' = "loop" /\ completed' = completed
               ELSE pc' = "done" /\ completed' = TRUE
    /\ UNCHANGED <<server, pageCount, requests, thrown>>
    /\ UNCHANGED callVars
    /\ UNCHANGED guideVars

\* variant: the error response is logged and taken for the end of the results
ReceiveRpcError_Swallowed ==
    /\ pc = "await"
    /\ ServerFails(server, LastRequest.params.paginationToken)
    /\ server.failure.kind = "rpc"
    /\ responses' = Append(responses, [error |-> server.failure.error])
    /\ paginationToken' = Null
    /\ pc' = "done"
    /\ completed' = TRUE
    /\ UNCHANGED <<server, served, allTransactions, pageCount, requests, thrown>>
    /\ UNCHANGED callVars
    /\ UNCHANGED guideVars

\* index.ts:43-46 and 49-52: the response carries an error member; the helper
\* throws, the walk does not catch
ReceiveRpcError ==
    /\ pc = "await"
    /\ ServerFails(server, LastRequest.params.paginationToken)
    /\ server.failure.kind = "rpc"
    /\ responses' = Append(responses, [error |-> server.failure.error])
    /\ thrown' = RpcErrorThrown(server.failure.error)
    /\ pc' = "failed"
    /\ UNCHANGED <<server, served, allTransactions, paginationToken, pageCount,
                   requests, completed>>
    /\ UNCHANGED callVars
    /\ UNCHANGED guideVars

\* index.ts:37 and 49-52: axios.post rejects; the helper rethrows
ReceiveTransportError ==
    /\ pc = "await"
    /\ ServerFails(server, LastRequest.params.paginationToken)
    /\ server.failure.kind = "transport"
    /\ thrown' = TransportErrorThrown(server.failure.error)
    /\ pc' = "failed"
    /\ UNCHANGED <<server, served, allTransactions, paginationToken, pageCount,
                   requests, responses, completed>>
    /\ UNCHANGED callVars
    /\ UNCHANGED guideVars

\* no file download-state.json
NoFile == [none |-> TRUE]

\* the three block ranges of parallelPagination are numbered 1..3
Shards == {1, 2, 3}

\* the retry wrappers of the guides are not in use
RetryIdle ==
    /\ policy = "none"
    /\ retryParams = [limit |-> 100]
    /\ retries = 0
    /\ attempts = <<>>
    /\ retryPc = "idle"
    /\ retryOutcome = [kind |-> "none"]
    /\ waits = <<>>

\* ResumableDownloader is not in use
DownloaderIdle ==
    /\ runs = 0
    /\ dlPc = "idle"
    /\ state = [none |-> TRUE]
    /\ file = NoFile
    /\ batch = [none |-> TRUE]
    /\ dlSent = <<>>
    /\ processed = <<>>

\* parallelPagination is not in use
ShardsIdle ==
    /\ dataset = {}
    /\ pageCap = 1
    /\ shardPc = [i \in Shards |-> "idle"]
    /\ shardToken = [i \in Shards |-> Null]
    /\ shardAll = [i \in Shards |-> <<>>]
    /\ shardSent = [i \in Shards |-> <<>>]
    /\ shardGot = [i \in Shards |-> <<>>]
    /\ results = [resolved |-> FALSE, all |-> <<>>]

\* monitorLatestTransactions is not in use
MonitorIdle ==
    /\ feed = 0
    /\ lastSignature = Null
    /\ handed = <<>>
    /\ polls = 0
    /\ monPc = "idle"

\* the single call is not in use while the walk is modelled
CallIdle ==
    /\ callPc = "idle"
    /\ callParams = [limit |-> 100]
    /\ callResponse = [none |-> TRUE]
    /\ callOutcome = [kind |-> "none"]
    /\ callPosts = 0
    /\ callResolved = [none |-> TRUE]
    /\ chain = [latestSlot |-> 0, firstIndexedSlot |-> 0]

Init ==
    WalkInit /\ CallIdle /\ RetryIdle /\ DownloaderIdle /\ ShardsIdle /\ MonitorIdle

Next ==
    \/ FetchPage
    \/ ReceiveResult
    \/ ReceiveRpcError
    \/ ReceiveTransportError

Spec == Init /\ [][Next]_vars

\* the walk is one async function: each awaited response is delivered
FairSpec == Spec /\ WF_vars(Next)

(***************************************************************************)
(* The walk against a server that sends a malformed response               *)
(***************************************************************************)
\* the two malformed answers: a body with neither result nor error, and a
\* result without paginationToken
MalformedFailures ==
    { [kind |-> k, error |-> [code |-> 0, message |-> ""]] :
        k \in {"emptyBody", "noToken"} }

ProtocolServers ==
    UNION { ServersWith(n, 1..n, MalformedFailures) : n \in 1..MaxPages }

\* reading a member of a JavaScript object: undefined when it is missing
Member(obj, f) == IF f \in DOMAIN obj THEN obj[f] ELSE Undefined

\* index.ts:302  result.data on an undefined result
TypeErrorThrown ==
    [kind |-> "TypeError", message |-> "Cannot read properties of undefined"]

ProtocolInit ==
    /\ server \in ProtocolServers
    /\ served = <<>>
    /\ pc = "loop"
    /\ allTransactions = <<>>
    /\ paginationToken = Null
    /\ pageCount = 0
    /\ requests = <<>>
    /\ responses = <<>>
    /\ thrown = NoError
    /\ completed = FALSE
    /\ CallIdle
    /\ RetryIdle
    /\ DownloaderIdle
    /\ ShardsIdle
    /\ MonitorIdle

\* index.ts:43, 48, 300-302: the body has neither error nor result; the helper
\* returns undefined and result.data throws a TypeError out of the walk
ReceiveEmptyBody ==
    /\ pc = "await"
    /\ ServerFails(server, LastRequest.params.paginationToken)
    /\ server.failure.kind = "emptyBody"
    /\ responses' = Append(responses, [malformed |-> "emptyBody"])
    /\ thrown' = TypeErrorThrown
    /\ pc' = "failed"
    /\ UNCHANGED <<server, served, allTransactions, paginationToken, pageCount,
                   requests, completed>>
    /\ UNCHANGED callVars
    /\ UNCHANGED guideVars

\* index.ts:43, 48, 300-318: the result has data but no paginationToken; the
\* walk stores undefined, and undefined !== null keeps the loop going
ReceiveResultWithoutToken ==
    /\ pc = "await"
    /\ ServerFails(server, LastRequest.params.paginationToken)
    /\ server.failure.kind = "noToken"
    /\ LET page == PageForToken(server, LastRequest.params.paginationToken)
           result == [data |-> PageRecords(server, page)]
           tok == Member(result, "paginationToken")
       IN /\ served' = Append(served, page)
          /\ responses' = Append(responses,
                                 [malformed |-> "noToken", result |-> result])
          /\ allTransactions' = PushAll(allTransactions, result.data)
          /\ paginationToken' = tok
          /\ IF ~DemoLimitReached(pageCount) /\ LoopCondition(tok)
               THEN pc' = "loop" /\ completed' = completed
               ELSE pc' = "done" /\ completed' = TRUE
    /\ UNCHANGED <<server, pageCount, requests, thrown>>
    /\ UNCHANGED callVars
    /\ UNCHANGED guideVars

ProtocolNext ==
    \/ FetchPage
    \/ ReceiveResult
    \/ ReceiveEmptyBody
    \/ ReceiveResultWithoutToken

ProtocolSpec == ProtocolInit /\ [][ProtocolNext]_vars

(***************************************************************************)
(* One call of searchTransactions (index.ts:33-53) with arbitrary params,  *)
(* answered according to the documented parameter rules                    *)
(***************************************************************************)
\* SearchParams: every member is optional (search-transactions-req.ts:41-123)
HasParam(p, f) == f \in DOMAIN p

\* variant: only a fromBlock without toBlock is detected
UnpairedBlockRange_FromOnly(p) ==
    HasParam(p, "fromBlock") /\ ~HasParam(p, "toBlock")

\* "Must be provided together with toBlock - specifying only one is an error"
UnpairedBlockRange(p) == HasParam(p, "fromBlock") # HasParam(p, "toBlock")

\* variant: a single-block range is taken for inverted
RangeInverted_Strict(p) ==
    /\ HasParam(p, "fromBlock")
    /\ HasParam(p, "toBlock")
    /\ p.toBlock <= p.fromBlock

\* toBlock: "Must be greater than or equal to fromBlock"
RangeInverted(p) ==
    /\ HasParam(p, "fromBlock")
    /\ HasParam(p, "toBlock")
    /\ p.toBlock < p.fromBlock

\* transactionDetails: "(default: signatures)"
DetailLevel(p) ==
    IF HasParam(p, "transactionDetails") THEN p.transactionDetails ELSE "signatures"

\* limit: "Signatures mode: max 1000", "Full mode: max 100"
LimitCap(details) ==
    IF details = "full" THEN FullMaxLimit ELSE SignaturesMaxLimit

\* the request asks for more than the maximum of its detail level
AboveLimitCap(p) == HasParam(p, "limit") /\ p.limit > LimitCap(DetailLevel(p))

\* the documented rule a params object breaks, "none" if it breaks none
ParamRuleBroken(p) ==
    IF UnpairedBlockRange(p) THEN "UnpairedBlockRange"
    ELSE IF RangeInverted(p) THEN "RangeInverted"
    ELSE "none"

\* Error Handling / Common Error Codes: -32602 Invalid params
InvalidParamsError(rule) == [code |-> -32602, message |-> rule]

\* limits tried in a single call: around both maxima
LimitValues ==
    {1, FullMaxLimit, FullMaxLimit + 1, SignaturesMaxLimit, SignaturesMaxLimit + 1}

OptionalParam(f, values) == {<<>>} \cup {f :> v : v \in values}

\* slots of the tokens tried in a single call: below and above the window size
TokenSlots == {MaxSlot, DefaultWindowSize + MaxSlot}

\* the params objects a single call is made with
CallParamsSet ==
    { a @@ b @@ c @@ d @@ e @@ f :
        a \in OptionalParam("fromBlock", 0..MaxSlot),
        b \in OptionalParam("toBlock", 0..MaxSlot),
        c \in OptionalParam("limit", LimitValues),
        d \in OptionalParam("transactionDetails", {"signatures", "full"}),
        e \in OptionalParam("sort", {"ASC", "DESC"}),
        f \in OptionalParam("paginationToken", {<<sl, 1>> : sl \in TokenSlots}) }

\* the chains the API is tried on: a young one and one older than a window
Chains ==
    { [latestSlot |-> l, firstIndexedSlot |-> fi] :
        l \in {MaxSlot + 1, DefaultWindowSize + MaxSlot + 1}, fi \in 0..1 }

\* variant: ascending order when no sort is given
DefaultSort_Asc == "ASC"

\* search-transactions-req.ts:100-103  "Sort order (default: DESC)"
DefaultSort == "DESC"

\* the sort order applied to a request
SortOf(p) == IF HasParam(p, "sort") THEN p.sort ELSE DefaultSort

\* variant: the signatures default is used for both detail levels
DefaultLimit_Same(details) == SignaturesDefaultLimit

\* limit: "Signatures mode: ... default 1000", "Full mode: ... default 100"
DefaultLimit(details) ==
    IF details = "full" THEN FullDefaultLimit ELSE SignaturesDefaultLimit

\* the limit applied to a request; results never exceed the maximum
LimitOf(p) ==
    IF HasParam(p, "limit")
      THEN Min(p.limit, LimitCap(DetailLevel(p)))
      ELSE DefaultLimit(DetailLevel(p))

\* the request carries a token
TokenPresent(p) ==
    HasParam(p, "paginationToken") /\ p.paginationToken \notin {Null, Undefined}

\* the slot embedded in a token "slot:transactionIndex"
TokenSlot(tok) == tok[1]

\* variant: with a token the window always ends at the token's slot
DefaultWindow_TokenAlwaysBack(sort, hasToken, tokenSlot, ch) ==
    IF hasToken
      THEN <<tokenSlot - DefaultWindowSize, tokenSlot>>
      ELSE IF sort = "DESC"
             THEN <<ch.latestSlot - DefaultWindowSize, ch.latestSlot>>
             ELSE <<ch.firstIndexedSlot, ch.firstIndexedSlot + DefaultWindowSize>>

\* variant: a window that would start below slot 0 starts at slot 0
DefaultWindow_Clamped(sort, hasToken, tokenSlot, ch) ==
    IF hasToken
      THEN IF sort = "DESC"
             THEN <<IF tokenSlot < DefaultWindowSize
                      THEN 0 ELSE tokenSlot - DefaultWindowSize, tokenSlot>>
             ELSE <<tokenSlot, tokenSlot + DefaultWindowSize>>
      ELSE IF sort = "DESC"
             THEN <<IF ch.latestSlot < DefaultWindowSize
                      THEN 0 ELSE ch.latestSlot - DefaultWindowSize, ch.latestSlot>>
             ELSE <<ch.firstIndexedSlot, ch.firstIndexedSlot + DefaultWindowSize>>

\* variant: the window holds 5000 blocks, its far bound moved in by one
DefaultWindow_Exclusive(sort, hasToken, tokenSlot, ch) ==
    IF hasToken
      THEN IF sort = "DESC"
             THEN <<tokenSlot - DefaultWindowSize + 1, tokenSlot>>
             ELSE <<tokenSlot, tokenSlot + DefaultWindowSize - 1>>
      ELSE IF sort = "DESC"
             THEN <<ch.latestSlot - DefaultWindowSize + 1, ch.latestSlot>>
             ELSE <<ch.firstIndexedSlot, ch.firstIndexedSlot + DefaultWindowSize - 1>>

\* Block Range Rules / Default Block Range: the window chosen when neither
\* fromBlock nor toBlock is given. "Last 5000 blocks" is written the way the
\* token rows are written: 5000 slots back from the newest one.
DefaultWindow(sort, hasToken, tokenSlot, ch) ==
    IF hasToken
      THEN IF sort = "DESC"
             THEN <<tokenSlot - DefaultWindowSize, tokenSlot>>
             ELSE <<tokenSlot, tokenSlot + DefaultWindowSize>>
      ELSE IF sort = "DESC"
             THEN <<ch.latestSlot - DefaultWindowSize, ch.latestSlot>>
             ELSE <<ch.firstIndexedSlot, ch.firstIndexedSlot + DefaultWindowSize>>

\* the default window of a request without block range
DefaultWindowOf(p, ch) ==
    DefaultWindow(SortOf(p), TokenPresent(p),
                  IF TokenPresent(p) THEN TokenSlot(p.paginationToken) ELSE 0, ch)

\* variant: a token moves the window even when a block range is given
EffectiveWindow_TokenWins(p, ch) ==
    IF HasParam(p, "fromBlock") /\ HasParam(p, "toBlock") /\ ~TokenPresent(p)
      THEN [from |-> p.fromBlock, to |-> p.toBlock, source |-> "explicit"]
      ELSE [from |-> DefaultWindowOf(p, ch)[1], to |-> DefaultWindowOf(p, ch)[2],
            source |-> "default"]

\* fromBlock / toBlock: inclusive bounds of the search range; the default
\* window applies "when neither fromBlock nor toBlock is provided"
EffectiveWindow(p, ch) ==
    IF HasParam(p, "fromBlock") /\ HasParam(p, "toBlock")
      THEN [from |-> p.fromBlock, to |-> p.toBlock, source |-> "explicit"]
      ELSE [from |-> DefaultWindowOf(p, ch)[1], to |-> DefaultWindowOf(p, ch)[2],
            source |-> "default"]

\* what the API applies to a request it accepts
Resolved(p, ch) ==
    [transactionDetails |-> DetailLevel(p),
     limit |-> LimitOf(p),
     sort |-> SortOf(p),
     window |-> EffectiveWindow(p, ch)]

\* the rejection of axios.post when the network fails
NetworkError == [code |-> 0, message |-> "Network Error"]

\* the walk is not in use while the single call is modelled
WalkIdle ==
    /\ server = [numPages |-> 1, pageLen |-> <<0>>, failAt |-> 0,
                 failure |-> NoFailure, tokenSeed |-> 0]
    /\ served = <<>>
    /\ pc = "idle"
    /\ allTransactions = <<>>
    /\ paginationToken = Null
    /\ pageCount = 0
    /\ requests = <<>>
    /\ responses = <<>>
    /\ thrown = NoError
    /\ completed = FALSE

CallInit ==
    /\ WalkIdle
    /\ RetryIdle
    /\ DownloaderIdle
    /\ ShardsIdle
    /\ MonitorIdle
    /\ callPc = "ready"
    /\ callParams \in CallParamsSet
    /\ callResponse = [none |-> TRUE]
    /\ callOutcome = [kind |-> "none"]
    /\ callPosts = 0
    /\ callResolved = [none |-> TRUE]
    /\ chain \in Chains

\* variant: the params are checked before anything is sent
CallPost_Preflight ==
    /\ callPc = "ready"
    /\ IF ParamRuleBroken(callParams) # "none"
         THEN /\ callPc' = "thrown"
              /\ callOutcome' =
                    [kind |-> "thrown",
                     error |-> RpcErrorThrown(
                                 InvalidParamsError(ParamRuleBroken(callParams)))]
              /\ callPosts' = callPosts
         ELSE /\ callPc' = "posted"
              /\ callOutcome' = callOutcome
              /\ callPosts' = callPosts + 1
    /\ UNCHANGED <<callParams, callResponse, callResolved, chain>>
    /\ UNCHANGED walkVars
    /\ UNCHANGED guideVars

\* index.ts:36-37  try { axios.post(RPC_URL, requestBody, ...) }: the request
\* goes out as it was given
CallPost ==
    /\ callPc = "ready"
    /\ callPc' = "posted"
    /\ callPosts' = callPosts + 1
    /\ UNCHANGED <<callParams, callResponse, callOutcome, callResolved, chain>>
    /\ UNCHANGED walkVars
    /\ UNCHANGED guideVars

\* index.ts:43-46, 49-52: the response carries an error member and the helper
\* throws. The API answers so when the params break a documented rule; what
\* it does with a limit above the maximum is not documented, so a rejection
\* is one of the two possible answers there.
CallRespondError ==
    /\ callPc = "posted"
    /\ \/ /\ ParamRuleBroken(callParams) # "none"
          /\ callResponse' =
                [error |-> InvalidParamsError(ParamRuleBroken(callParams))]
       \/ /\ ParamRuleBroken(callParams) = "none"
          /\ AboveLimitCap(callParams)
          /\ callResponse' = [error |-> InvalidParamsError("LimitExceeded")]
    /\ callOutcome' = [kind |-> "thrown",
                       error |-> RpcErrorThrown(callResponse'.error)]
    /\ callPc' = "thrown"
    /\ UNCHANGED <<callParams, callPosts, callResolved, chain>>
    /\ UNCHANGED walkVars
    /\ UNCHANGED guideVars

\* index.ts:43, 48: the response carries no error member and the helper
\* returns response.data.result
CallRespondResult ==
    /\ callPc = "posted"
    /\ ParamRuleBroken(callParams) = "none"
    /\ callResponse' = [result |-> [data |-> <<>>, paginationToken |-> Null]]
    /\ callOutcome' = [kind |-> "returned", result |-> callResponse'.result]
    /\ callPc' = "returned"
    /\ callResolved' = Resolved(callParams, chain)
    /\ UNCHANGED <<callParams, callPosts, chain>>
    /\ UNCHANGED walkVars
    /\ UNCHANGED guideVars

\* variant: a failed POST is sent once more
CallTransportError_RetryOnce ==
    /\ callPc = "posted"
    /\ IF callPosts < 2
         THEN /\ callPosts' = callPosts + 1
              /\ UNCHANGED <<callPc, callOutcome>>
         ELSE /\ callOutcome' = [kind |-> "thrown",
                                 error |-> TransportErrorThrown(NetworkError)]
              /\ callPc' = "netfailed"
              /\ callPosts' = callPosts
    /\ UNCHANGED <<callParams, callResponse, callResolved, chain>>
    /\ UNCHANGED walkVars
    /\ UNCHANGED guideVars

\* index.ts:37, 49-52: axios.post rejects; the catch block logs and rethrows
CallTransportError ==
    /\ callPc = "posted"
    /\ callOutcome' = [kind |-> "thrown",
                       error |-> TransportErrorThrown(NetworkError)]
    /\ callPc' = "netfailed"
    /\ UNCHANGED <<callParams, callResponse, callPosts, callResolved, chain>>
    /\ UNCHANGED walkVars
    /\ UNCHANGED guideVars

CallNext ==
    \/ CallPost
    \/ CallRespondError
    \/ CallRespondResult
    \/ CallTransportError

CallSpec == CallInit /\ [][CallNext]_vars

(***************************************************************************)
(* The retry wrappers of the guides: fetchPageWithRetry and                *)
(* fetchWithRateLimit (CONTRIBUTING.md:810-854), robustFetchSignatures     *)
(* (BASIC_SEARCH.md:299-333)                                               *)
(***************************************************************************)
RetryPolicies == {"fetchPageWithRetry", "fetchWithRateLimit", "robustFetchSignatures"}

\* the params handed to a wrapper: a filter and the token of the page wanted
RetryParamsSet ==
    { [accountInclude |-> <<"EPjFWdd5AufqSSqeM2qN1xzybapC8G4wEGGkZwyTDt1v">>,
       limit |-> l, paginationToken |-> t] :
        l \in {FullMaxLimit, SignaturesMaxLimit},
        t \in {Null} \cup { <<sl, 1>> : sl \in 1..MaxSlot } }

\* axios rejects a response whose HTTP status is not 2xx; the error carries
\* the response
HttpErrorThrown(status) ==
    [kind |-> "AxiosError", message |-> "Request failed", status |-> status]

\* what one searchTransactions call can throw: the Error made from an error
\* response, an HTTP failure, or a network failure
AttemptErrors ==
    { RpcErrorThrown(e) : e \in RpcErrors }
      \cup { HttpErrorThrown(st) : st \in {429, 500} }
      \cup { TransportErrorThrown(NetworkError) }

\* CONTRIBUTING.md:845  error.response?.status === 429
IsHttp429(err) == "status" \in DOMAIN err /\ err.status = 429

\* CONTRIBUTING.md:825  new Error(`Failed after ${maxRetries} retries: ...`)
FailedAfterRetries(err) ==
    [kind |-> "Error", message |-> <<"Failed after retries", err.message>>]

\* BASIC_SEARCH.md:318  new Error(`API Error: ${message}`)
ApiError(e) == [kind |-> "Error", message |-> <<"API Error", e.message>>]

RetryInit ==
    /\ WalkIdle
    /\ CallIdle
    /\ DownloaderIdle
    /\ ShardsIdle
    /\ MonitorIdle
    /\ policy \in RetryPolicies
    /\ retryParams \in RetryParamsSet
    /\ retries = 0
    /\ attempts = <<>>
    /\ retryPc = "call"
    /\ retryOutcome = [kind |-> "none"]
    /\ waits = <<>>

\* variant: a retry asks for the first page again
RetryCall_DropsToken ==
    /\ retryPc = "call"
    /\ attempts' = Append(attempts,
                          IF Len(attempts) = 0
                            THEN retryParams
                            ELSE [retryParams EXCEPT !.paginationToken = Null])
    /\ retryPc' = "await"
    /\ UNCHANGED <<policy, retryParams, retries, retryOutcome, waits>>
    /\ UNCHANGED <<walkVars, callVars, dlVars, shardVars, monitorVars>>

\* CONTRIBUTING.md:818, 842 and BASIC_SEARCH.md:305: the request is issued
\* with the params the wrapper was given
RetryCall ==
    /\ retryPc = "call"
    /\ attempts' = Append(attempts, retryParams)
    /\ retryPc' = "await"
    /\ UNCHANGED <<policy, retryParams, retries, retryOutcome, waits>>
    /\ UNCHANGED <<walkVars, callVars, dlVars, shardVars, monitorVars>>

\* CONTRIBUTING.md:819, 842 and BASIC_SEARCH.md:321: the result is returned
RetryReturns ==
    /\ retryPc = "await"
    /\ retryOutcome' = [kind |-> "returned",
                         value |-> <<"result of request", Len(attempts)>>]
    /\ retryPc' = "returned"
    /\ UNCHANGED <<policy, retryParams, retries, attempts, waits>>
    /\ UNCHANGED <<walkVars, callVars, dlVars, shardVars, monitorVars>>

\* variant: off by one, the wrapper gives up one failure later
FetchPageWithRetryCatch_OneMore ==
    /\ retryPc = "await"
    /\ policy = "fetchPageWithRetry"
    /\ \E err \in AttemptErrors :
          /\ retries' = retries + 1
          /\ IF retries + 1 > maxRetries
               THEN /\ retryOutcome' = [kind |-> "thrown",
                                        error |-> FailedAfterRetries(err)]
                    /\ retryPc' = "thrown"
                    /\ waits' = waits
               ELSE /\ retryOutcome' = retryOutcome
                    /\ retryPc' = "call"
                    /\ waits' = Append(waits, 2 ^ (retries + 1) * 1000)
    /\ UNCHANGED <<policy, retryParams, attempts>>
    /\ UNCHANGED <<walkVars, callVars, dlVars, shardVars, monitorVars>>

\* CONTRIBUTING.md:821-832: the catch block of fetchPageWithRetry
FetchPageWithRetryCatch ==
    /\ retryPc = "await"
    /\ policy = "fetchPageWithRetry"
    /\ \E err \in AttemptErrors :
          /\ retries' = retries + 1
          /\ IF retries + 1 >= maxRetries
               THEN /\ retryOutcome' = [kind |-> "thrown",
                                        error |-> FailedAfterRetries(err)]
                    /\ retryPc' = "thrown"
                    /\ waits' = waits
               ELSE /\ retryOutcome' = retryOutcome
                    /\ retryPc' = "call"
                    /\ waits' = Append(waits, 2 ^ (retries + 1) * 1000)
    /\ UNCHANGED <<policy, retryParams, attempts>>
    /\ UNCHANGED <<walkVars, callVars, dlVars, shardVars, monitorVars>>

\* CONTRIBUTING.md:844-852: the catch block of fetchWithRateLimit
FetchWithRateLimitCatch ==
    /\ retryPc = "await"
    /\ policy = "fetchWithRateLimit"
    /\ \E err \in AttemptErrors :
          IF IsHttp429(err)
            THEN /\ Len(attempts) < MaxAttempts
                 /\ retryPc' = "call"
                 /\ retryOutcome' = retryOutcome
                 /\ waits' = Append(waits, 60000)
            ELSE /\ retryOutcome' = [kind |-> "thrown", error |-> err]
                 /\ retryPc' = "thrown"
                 /\ waits' = waits
    /\ UNCHANGED <<policy, retryParams, retries, attempts>>
    /\ UNCHANGED <<walkVars, callVars, dlVars, shardVars, monitorVars>>

\* BASIC_SEARCH.md:307-316 and 303, 333: the response carries an error with
\* code 429; sleep(5000), retries++ and continue, and when the loop test fails
\* the function ends without a return value
RobustRateLimited ==
    /\ retryPc = "await"
    /\ policy = "robustFetchSignatures"
    /\ waits' = Append(waits, 5000)
    /\ retries' = retries + 1
    /\ IF retries + 1 < MAX_RETRIES
         THEN /\ retryPc' = "call"
              /\ retryOutcome' = retryOutcome
         ELSE /\ retryPc' = "returned"
              /\ retryOutcome' = [kind |-> "returned", value |-> "undefined"]
    /\ UNCHANGED <<policy, retryParams, attempts>>
    /\ UNCHANGED <<walkVars, callVars, dlVars, shardVars, monitorVars>>

\* variant: off by one, the function gives up one failure later
RobustCatch_OneMore ==
    /\ retryPc = "await"
    /\ policy = "robustFetchSignatures"
    /\ \E err \in { ApiError(e) : e \in { x \in RpcErrors : x.code # 429 } }
                    \cup { x \in AttemptErrors : x.kind = "AxiosError" } :
          /\ retries' = retries + 1
          /\ IF retries + 1 > MAX_RETRIES
               THEN /\ retryOutcome' = [kind |-> "thrown", error |-> err]
                    /\ retryPc' = "thrown"
                    /\ waits' = waits
               ELSE /\ retryOutcome' = retryOutcome
                    /\ retryPc' = "call"
                    /\ waits' = Append(waits, 1000 * (retries + 1))
    /\ UNCHANGED <<policy, retryParams, attempts>>
    /\ UNCHANGED <<walkVars, callVars, dlVars, shardVars, monitorVars>>

\* BASIC_SEARCH.md:318 and 323-331: the catch block of robustFetchSignatures;
\* it also catches the Error thrown in the try block for an error response
\* with another code
RobustCatch ==
    /\ retryPc = "await"
    /\ policy = "robustFetchSignatures"
    /\ \E err \in { ApiError(e) : e \in { x \in RpcErrors : x.code # 429 } }
                    \cup { x \in AttemptErrors : x.kind = "AxiosError" } :
          /\ retries' = retries + 1
          /\ IF retries + 1 >= MAX_RETRIES
               THEN /\ retryOutcome' = [kind |-> "thrown", error |-> err]
                    /\ retryPc' = "thrown"
                    /\ waits' = waits
               ELSE /\ retryOutcome' = retryOutcome
                    /\ retryPc' = "call"
                    /\ waits' = Append(waits, 1000 * (retries + 1))
    /\ UNCHANGED <<policy, retryParams, attempts>>
    /\ UNCHANGED <<walkVars, callVars, dlVars, shardVars, monitorVars>>

RetryNext ==
    \/ RetryCall
    \/ RetryReturns
    \/ FetchPageWithRetryCatch
    \/ FetchWithRateLimitCatch
    \/ RobustRateLimited
    \/ RobustCatch

RetrySpec == RetryInit /\ [][RetryNext]_vars

(***************************************************************************)
(* ResumableDownloader (CONTRIBUTING.md:685-756), started, stopped by a    *)
(* failure and started again, against a server whose pages do not change   *)
(***************************************************************************)
\* Response Structure of the guide: result.transactions, result.paginationToken
GuideResponse(srv, tok) ==
    [transactions |-> PageRecords(srv, PageForToken(srv, tok)),
     paginationToken |-> PageToken(srv, PageForToken(srv, tok))]

\* CONTRIBUTING.md:696-700: the state of a first start; lastBatchTime, a
\* timestamp that nothing reads, is left out
FreshState == [paginationToken |-> Null, downloadedCount |-> 0]

\* CONTRIBUTING.md:706-710: the params of the request of one iteration
DownloadParams(tok) ==
    [accountInclude |-> <<"...">>, paginationToken |-> tok, limit |-> 1000]

DownloaderInit ==
    /\ server \in UNION { ServersWith(n, {0}, {NoFailure}) : n \in 1..MaxPages }
    /\ served = <<>>
    /\ pc = "idle"
    /\ allTransactions = <<>>
    /\ paginationToken = Null
    /\ pageCount = 0
    /\ requests = <<>>
    /\ responses = <<>>
    /\ thrown = NoError
    /\ completed = FALSE
    /\ CallIdle
    /\ RetryIdle
    /\ ShardsIdle
    /\ MonitorIdle
    /\ runs = 0
    /\ dlPc = "new"
    /\ state = [none |-> TRUE]
    /\ file = NoFile
    /\ batch = [none |-> TRUE]
    /\ dlSent = <<>>
    /\ processed = <<>>

\* variant: the constructor always starts from the beginning
NewDownloader_IgnoresFile ==
    /\ dlPc \in {"new", "stopped", "done"}
    /\ runs < MaxRuns
    /\ runs' = runs + 1
    /\ state' = FreshState
    /\ dlPc' = "fetch"
    /\ UNCHANGED <<file, batch, dlSent, processed>>
    /\ UNCHANGED <<walkVars, callVars, retryVars, shardVars, monitorVars>>

\* CONTRIBUTING.md:694-701 and 753-755: the program is started; the
\* constructor loads the saved state, or starts fresh when there is none
NewDownloader ==
    /\ dlPc \in {"new", "stopped", "done"}
    /\ runs < MaxRuns
    /\ runs' = runs + 1
    /\ state' = IF file = NoFile THEN FreshState ELSE file
    /\ dlPc' = "fetch"
    /\ UNCHANGED <<file, batch, dlSent, processed>>
    /\ UNCHANGED <<walkVars, callVars, retryVars, shardVars, monitorVars>>

\* CONTRIBUTING.md:704-710: the request of one iteration is issued
DlFetch ==
    /\ dlPc = "fetch"
    /\ dlSent' = Append(dlSent, [run |-> runs,
                                 params |-> DownloadParams(state.paginationToken)])
    /\ dlPc' = "await"
    /\ UNCHANGED <<runs, state, file, batch, processed>>
    /\ UNCHANGED <<walkVars, callVars, retryVars, shardVars, monitorVars>>

\* CONTRIBUTING.md:706-715: the response arrives and processBatch is called
DlFetchReturns ==
    /\ dlPc = "await"
    /\ batch' = GuideResponse(server, dlSent[Len(dlSent)].params.paginationToken)
    /\ dlPc' = "process"
    /\ UNCHANGED <<runs, state, file, dlSent, processed>>
    /\ UNCHANGED <<walkVars, callVars, retryVars, shardVars, monitorVars>>

\* CONTRIBUTING.md:731-735: searchTransactions throws; the catch block logs
\* and breaks
DlFetchFails ==
    /\ dlPc = "await"
    /\ dlPc' = "stopped"
    /\ UNCHANGED <<runs, state, file, batch, dlSent, processed>>
    /\ UNCHANGED <<walkVars, callVars, retryVars, shardVars, monitorVars>>

\* variant: the cursor is moved and saved before the batch is processed
DlProcessFails_SavesCursor ==
    /\ dlPc = "process"
    /\ state' = [state EXCEPT !.paginationToken = batch.paginationToken]
    /\ file' = state'
    /\ dlPc' = "stopped"
    /\ UNCHANGED <<runs, batch, dlSent, processed>>
    /\ UNCHANGED <<walkVars, callVars, retryVars, shardVars, monitorVars>>

\* CONTRIBUTING.md:715 and 731-735: processBatch throws; the catch block logs
\* and breaks
DlProcessFails ==
    /\ dlPc = "process"
    /\ dlPc' = "stopped"
    /\ UNCHANGED <<runs, state, file, batch, dlSent, processed>>
    /\ UNCHANGED <<walkVars, callVars, retryVars, shardVars, monitorVars>>

\* CONTRIBUTING.md:715-729: processBatch succeeds; the state is updated and
\* saved, and the loop ends when the token is null
DlProcessed ==
    /\ dlPc = "process"
    /\ processed' = Append(processed, [run |-> runs, saved |-> TRUE,
                                       transactions |-> batch.transactions])
    /\ state' = [paginationToken |-> batch.paginationToken,
                 downloadedCount |-> state.downloadedCount + Len(batch.transactions)]
    /\ file' = state'
    /\ dlPc' = IF batch.paginationToken = Null THEN "done" ELSE "fetch"
    /\ UNCHANGED <<runs, batch, dlSent>>
    /\ UNCHANGED <<walkVars, callVars, retryVars, shardVars, monitorVars>>

\* CONTRIBUTING.md:715-723, 731-735 and 739-742: processBatch succeeds and the
\* state is updated, but the file is not written: writeFileSync throws into
\* the catch block, or the program is stopped before the write
DlStopsBeforeSave ==
    /\ dlPc = "process"
    /\ processed' = Append(processed, [run |-> runs, saved |-> FALSE,
                                       transactions |-> batch.transactions])
    /\ state' = [paginationToken |-> batch.paginationToken,
                 downloadedCount |-> state.downloadedCount + Len(batch.transactions)]
    /\ dlPc' = "stopped"
    /\ UNCHANGED <<runs, file, batch, dlSent>>
    /\ UNCHANGED <<walkVars, callVars, retryVars, shardVars, monitorVars>>

DownloaderNext ==
    \/ NewDownloader
    \/ DlFetch
    \/ DlFetchReturns
    \/ DlFetchFails
    \/ DlProcessFails
    \/ DlProcessed
    \/ DlStopsBeforeSave

DownloaderSpec == DownloaderInit /\ [][DownloaderNext]_vars

(***************************************************************************)
(* parallelPagination and downloadRange (CONTRIBUTING.md:758-806) against  *)
(* an API that holds a fixed set of transactions                           *)
(***************************************************************************)
\* CONTRIBUTING.md:766-770  const blockRanges
BlockRanges ==
    << [from |-> 394900000, to |-> 394920000],
       [from |-> 394920000, to |-> 394940000],
       [from |-> 394940000, to |-> 394960000] >>

\* the transactions an API may hold, as (slot, transactionIndex): at the ends
\* of the ranges, inside the second range, and two in one slot
CandidateRecords ==
    { <<394900000, 0>>, <<394920000, 0>>, <<394920000, 1>>, <<394930000, 0>>,
      <<394940000, 0>>, <<394960000, 0>> }

\* SortOrder: ASC oldest first, DESC newest first, on the slot number and,
\* within a slot, on the transaction index of the "slot:transactionIndex" cursor
Precedes(a, b, sort) ==
    IF sort = "ASC"
      THEN a[1] < b[1] \/ (a[1] = b[1] /\ a[2] < b[2])
      ELSE a[1] > b[1] \/ (a[1] = b[1] /\ a[2] > b[2])

\* the records of a set in sort order
RECURSIVE Ordered(_, _)
Ordered(S, sort) ==
    IF S = {} THEN <<>>
    ELSE LET first == CHOOSE r \in S : \A q \in S \ {r} : Precedes(r, q, sort)
         IN <<first>> \o Ordered(S \ {first}, sort)

\* variant: the cursor names the first record of the page
CursorOf_FirstOfPage(page) == page[1]

\* the token returned with a page that is not the last: the position
\* "slot:transactionIndex" of its last record
CursorOf(page) == page[Len(page)]

\* the API's answer to params p: the records inside [fromBlock, toBlock],
\* both bounds included, that come after the token, in sort order, at most
\* cap of them; a token when records remain, null when none do
RangeResponse(ds, cap, p) ==
    LET sort == SortOf(p)
        remaining == { r \in ds :
                         /\ p.fromBlock <= r[1]
                         /\ r[1] <= p.toBlock
                         /\ (p.paginationToken = Null
                               \/ Precedes(p.paginationToken, r, sort)) }
        ordered == Ordered(remaining, sort)
        page == SubSeq(ordered, 1, Min(cap, Len(ordered)))
    IN [transactions |-> page,
        paginationToken |-> IF Len(ordered) > cap THEN CursorOf(page) ELSE Null]

\* CONTRIBUTING.md:789-795: the params of one request of downloadRange
RangeParams(range, tok) ==
    [accountInclude |-> <<"...">>, fromBlock |-> range.from, toBlock |-> range.to,
     paginationToken |-> tok, limit |-> 1000]

ShardsInit ==
    /\ WalkIdle
    /\ CallIdle
    /\ RetryIdle
    /\ DownloaderIdle
    /\ MonitorIdle
    /\ dataset \in SUBSET CandidateRecords
    /\ pageCap \in 1..MaxPageLen
    /\ shardPc = [i \in Shards |-> "start"]
    /\ shardToken = [i \in Shards |-> Null]
    /\ shardAll = [i \in Shards |-> <<>>]
    /\ shardSent = [i \in Shards |-> <<>>]
    /\ shardGot = [i \in Shards |-> <<>>]
    /\ results = [resolved |-> FALSE, all |-> <<>>]

\* CONTRIBUTING.md:773-775 and 784-795: blockRanges.map calls downloadRange
\* for each range in turn; each call runs up to its first await, that is, it
\* issues its first request
ParallelStart ==
    /\ \A i \in Shards : shardPc[i] = "start"
    /\ shardSent' = [i \in Shards |-> <<RangeParams(BlockRanges[i], shardToken[i])>>]
    /\ shardPc' = [i \in Shards |-> "await"]
    /\ UNCHANGED <<dataset, pageCap, shardToken, shardAll, shardGot, results>>
    /\ UNCHANGED <<walkVars, callVars, retryVars, dlVars, monitorVars>>

\* variant: the calls push into one array they all share
ShardReceive_SharedCollection(i) ==
    /\ shardPc[i] = "await"
    /\ LET response == RangeResponse(dataset, pageCap,
                                     shardSent[i][Len(shardSent[i])])
           tok == response.paginationToken
       IN /\ shardGot' = [shardGot EXCEPT ![i] = Append(@, response)]
          /\ shardAll' = [j \in Shards |->
                            PushAll(shardAll[i], response.transactions)]
          /\ shardToken' = [shardToken EXCEPT ![i] = tok]
          /\ IF LoopCondition(tok)
               THEN /\ shardSent' = [shardSent EXCEPT
                                       ![i] = Append(@, RangeParams(BlockRanges[i], tok))]
                    /\ shardPc' = shardPc
               ELSE /\ shardSent' = shardSent
                    /\ shardPc' = [shardPc EXCEPT ![i] = "done"]
    /\ UNCHANGED <<dataset, pageCap, results>>
    /\ UNCHANGED <<walkVars, callVars, retryVars, dlVars, monitorVars>>

\* CONTRIBUTING.md:788-804: the response of call i arrives; the rest of the
\* loop body, the loop test and either the next request or the return
ShardReceive(i) ==
    /\ shardPc[i] = "await"
    /\ LET response == RangeResponse(dataset, pageCap,
                                     shardSent[i][Len(shardSent[i])])
           tok == response.paginationToken
       IN /\ shardGot' = [shardGot EXCEPT ![i] = Append(@, response)]
          /\ shardAll' = [shardAll EXCEPT
                            ![i] = PushAll(@, response.transactions)]
          /\ shardToken' = [shardToken EXCEPT ![i] = tok]
          /\ IF LoopCondition(tok)
               THEN /\ shardSent' = [shardSent EXCEPT
                                       ![i] = Append(@, RangeParams(BlockRanges[i], tok))]
                    /\ shardPc' = shardPc
               ELSE /\ shardSent' = shardSent
                    /\ shardPc' = [shardPc EXCEPT ![i] = "done"]
    /\ UNCHANGED <<dataset, pageCap, results>>
    /\ UNCHANGED <<walkVars, callVars, retryVars, dlVars, monitorVars>>

\* CONTRIBUTING.md:773-781: Promise.all resolves when every call has returned;
\* results.flat() puts the three arrays one after the other
Combine ==
    /\ \A i \in Shards : shardPc[i] = "done"
    /\ ~results.resolved
    /\ results' = [resolved |-> TRUE,
                   all |-> shardAll[1] \o shardAll[2] \o shardAll[3]]
    /\ UNCHANGED <<dataset, pageCap, shardPc, shardToken, shardAll, shardSent,
                   shardGot>>
    /\ UNCHANGED <<walkVars, callVars, retryVars, dlVars, monitorVars>>

ShardsNext ==
    \/ ParallelStart
    \/ \E i \in Shards : ShardReceive(i)
    \/ Combine

ShardsSpec == ShardsInit /\ [][ShardsNext]_vars

(***************************************************************************)
(* monitorLatestTransactions (BASIC_SEARCH.md:235-261) against an API to   *)
(* which new transactions are added while it polls                         *)
(***************************************************************************)
\* the signature of the n-th transaction of the chain
SignatureOf(n) == <<"signature", n>>

\* BASIC_SEARCH.md:25-51: what fetchLatestSignatures returns when the request
\* succeeds: the newest transactions, newest first, at most MaxPageLen of them
LatestSignatures(n) ==
    [k \in 1..Min(n, MaxPageLen) |-> [signature |-> SignatureOf(n + 1 - k)]]

\* BASIC_SEARCH.md:245-247: the filter; null is falsy
NewTransactions(transactions, last) ==
    IF last # Null
      THEN SelectSeq(transactions, LAMBDA tx : tx.signature # last)
      ELSE transactions

MonitorInit ==
    /\ WalkIdle
    /\ CallIdle
    /\ RetryIdle
    /\ DownloaderIdle
    /\ ShardsIdle
    /\ feed \in 0..MaxFeed
    /\ lastSignature = Null
    /\ handed = <<>>
    /\ polls = 0
    /\ monPc = "fetch"

\* a transaction is confirmed on the chain
NewTransactionLands ==
    /\ monPc \in {"fetch", "sleep"}
    /\ feed < MaxFeed
    /\ feed' = feed + 1
    /\ UNCHANGED <<lastSignature, handed, polls, monPc>>
    /\ UNCHANGED <<walkVars, callVars, retryVars, dlVars, shardVars>>

\* BASIC_SEARCH.md:242-258: fetchLatestSignatures answers; the rest of the
\* loop body up to the sleep
MonitorPoll ==
    /\ monPc = "fetch"
    /\ polls < MaxPolls
    /\ polls' = polls + 1
    /\ LET transactions == LatestSignatures(feed)
           newTransactions == NewTransactions(transactions, lastSignature)
       IN IF Len(newTransactions) > 0
            THEN /\ lastSignature' = newTransactions[1].signature
                 /\ handed' = Append(handed, newTransactions)
            ELSE UNCHANGED <<lastSignature, handed>>
    /\ monPc' = "sleep"
    /\ UNCHANGED feed
    /\ UNCHANGED <<walkVars, callVars, retryVars, dlVars, shardVars>>

\* BASIC_SEARCH.md:40-43, 48-51: the request fails, or the API answers with an
\* error and fetchLatestSignatures returns undefined, on which .filter or
\* .length throws; either way the monitor ends with an exception
MonitorFetchFails ==
    /\ monPc = "fetch"
    /\ polls < MaxPolls
    /\ polls' = polls + 1
    /\ monPc' = "thrown"
    /\ UNCHANGED <<feed, lastSignature, handed>>
    /\ UNCHANGED <<walkVars, callVars, retryVars, dlVars, shardVars>>

\* BASIC_SEARCH.md:258 and 241: the sleep ends, next iteration
MonitorWake ==
    /\ monPc = "sleep"
    /\ monPc' = "fetch"
    /\ UNCHANGED <<feed, lastSignature, handed, polls>>
    /\ UNCHANGED <<walkVars, callVars, retryVars, dlVars, shardVars>>

MonitorNext ==
    \/ NewTransactionLands
    \/ MonitorPoll
    \/ MonitorFetchFails
    \/ MonitorWake

MonitorSpec == MonitorInit /\ [][MonitorNext]_vars

(***************************************************************************)
(* Properties of the pagination walk                                       *)
(***************************************************************************)
\* concatenation of the records of pages 1..n, in server order
RECURSIVE ConcatPages(_, _)
ConcatPages(srv, n) ==
    IF n = 0 THEN <<>> ELSE ConcatPages(srv, n - 1) \o PageRecords(srv, n)

\* the filter part of a params object: everything but paginationToken
FilterOf(p) == [f \in DOMAIN p \ {"paginationToken"} |-> p[f]]

IsResult(resp) == "result" \in DOMAIN resp

LastResponse == responses[Len(responses)]

\* the last response was a page without records but with a token
LastPageEmptyWithToken ==
    /\ Len(responses) > 0
    /\ IsResult(LastResponse)
    /\ Len(LastResponse.result.data) = 0
    /\ LastResponse.result.paginationToken # Null

\* C1: request k+1 carries exactly the token of response k and is issued only
\* after response k was received; the server sees pages 1, 2, 3, ... in order,
\* none skipped, none asked for twice.
C1_SequentialChain ==
    /\ Len(requests) <= Len(responses) + 1
    /\ \A k \in 1..(Len(requests) - 1) :
          /\ IsResult(responses[k])
          /\ requests[k + 1].params.paginationToken
                = responses[k].result.paginationToken
    /\ \A k \in 1..Len(served) : served[k] = k

C1_Witness ==
    /\ Len(requests) = 3
    /\ Len(responses) = 2
    /\ requests[3].params.paginationToken = TokenOfPage(server, 2)

\* C2 as stated: against a server with N pages and no error the finished
\* walk has issued exactly N requests.
C2_Original ==
    (pc = "done" /\ server.failAt = 0) => Len(requests) = server.numPages

\* C2 amended: against a server with N pages and no error the walk
\* eventually finishes, and it has then issued exactly min(N, 3) requests,
\* one for each of the pages 1..min(N, 3).
C2_TerminatesWithinDemoLimit ==
    /\ (server.failAt = 0) ~> (pc = "done")
    /\ []((pc = "done" /\ server.failAt = 0) =>
            /\ Len(requests) = Min(server.numPages, DemoPageLimit)
            /\ served = [k \in 1..Min(server.numPages, DemoPageLimit) |-> k])

C2_Witness ==
    /\ pc = "done"
    /\ server.failAt = 0
    /\ server.numPages = 2
    /\ Len(requests) = 2

\* C3 as stated: the finished walk over an error-free server with N pages
\* has collected the records of pages 1..N in server order.
C3_Original ==
    (pc = "done" /\ server.failAt = 0) =>
        allTransactions = ConcatPages(server, server.numPages)

\* C3 amended: the finished walk over an error-free server with N pages has
\* collected the records of pages 1..min(N, 3) in server order, none dropped,
\* duplicated or reordered.
C3_CollectsPagesInOrder ==
    (pc = "done" /\ server.failAt = 0) =>
        allTransactions = ConcatPages(server, Min(server.numPages, DemoPageLimit))

C3_Witness ==
    /\ pc = "done"
    /\ server.failAt = 0
    /\ server.numPages = 3
    /\ Len(allTransactions) = 3 * MaxPageLen

\* C4 as stated: a walk that has stopped without an error has received a
\* null token last.
C4_Original ==
    pc = "done" => LastResponse.result.paginationToken = Null

\* C4 amended: a walk stops for one of three reasons: the last response
\* carried a null token, a request failed and the error was raised, or three
\* pages have been fetched. Stopped without an error, the last token is null
\* or pageCount is 3.
C4_StopReasons ==
    /\ pc = "done" =>
          /\ thrown = NoError
          /\ IsResult(LastResponse)
          /\ paginationToken = LastResponse.result.paginationToken
          /\ \/ LastResponse.result.paginationToken = Null
             \/ pageCount = DemoPageLimit
    /\ pc = "failed" =>
          /\ thrown # NoError
          /\ ServerFails(server, LastRequest.params.paginationToken)

C4_Witness ==
    /\ pc = "done"
    /\ pageCount = DemoPageLimit
    /\ LastResponse.result.paginationToken # Null

\* C5 as stated: a page with no records and a non-null token never ends the
\* walk.
C5_Original == ~(pc = "done" /\ LastPageEmptyWithToken)

\* C5 amended: a page with no records and a non-null token that is not the
\* third page does not end the walk: the loop continues, and the next request
\* carries that token.
C5_EmptyPageTolerated ==
    /\ [][(pc = "await" /\ Len(responses') = Len(responses) + 1
             /\ LastPageEmptyWithToken' /\ pageCount < DemoPageLimit)
            => (pc' = "loop"
                  /\ paginationToken' = LastResponse'.result.paginationToken)]_vars
    /\ []((pc = "await" /\ Len(responses) > 0) =>
            LastRequest.params.paginationToken
                = LastResponse.result.paginationToken)

C5_Witness ==
    /\ pc = "await"
    /\ LastPageEmptyWithToken
    /\ LastRequest.params.paginationToken = LastResponse.result.paginationToken

\* C6: when the request for page j fails, the walk raises that error with
\* exactly the records of pages 1..j-1 collected, issues no further request,
\* collects nothing more and does not report completion.
C6_ErrorSurfaced ==
    /\ []((pc # "await" /\ Len(requests) > 0
             /\ ServerFails(server, LastRequest.params.paginationToken)) =>
            /\ pc = "failed"
            /\ thrown # NoError
            /\ thrown.message = server.failure.error.message
            /\ Len(requests) = server.failAt
            /\ served = [k \in 1..(server.failAt - 1) |-> k]
            /\ allTransactions = ConcatPages(server, server.failAt - 1)
            /\ ~completed)
    /\ [][pc = "failed" =>
            (pc' = "failed" /\ UNCHANGED <<requests, allTransactions, completed>>)]_vars

C6_Witness ==
    /\ pc = "failed"
    /\ server.failAt = 3
    /\ Len(requests) = 3
    /\ Len(allTransactions) = 2 * MaxPageLen

\* C7: all requests of one walk carry the same filter parameters; only
\* paginationToken differs between two of them.
C7_SameFilter ==
    \A i, j \in 1..Len(requests) :
        FilterOf(requests[i].params) = FilterOf(requests[j].params)

C7_Witness ==
    /\ Len(requests) = 3
    /\ requests[1].params.paginationToken # requests[2].params.paginationToken
    /\ requests[2].params.paginationToken # requests[3].params.paginationToken

(***************************************************************************)
(* Properties of the parameter rules                                       *)
(***************************************************************************)
\* the single call has ended by throwing an error with this message
CallRejectedWith(rule) ==
    /\ callPc = "thrown"
    /\ callOutcome.kind = "thrown"
    /\ callOutcome.error.message = rule

CallEnded == callPc \in {"returned", "thrown"}

CallParamsBreakRangeRule ==
    \/ ("fromBlock" \in DOMAIN callParams) # ("toBlock" \in DOMAIN callParams)
    \/ /\ "fromBlock" \in DOMAIN callParams
       /\ "toBlock" \in DOMAIN callParams
       /\ callParams.toBlock < callParams.fromBlock

CallSortAsked ==
    IF "sort" \in DOMAIN callParams THEN callParams.sort ELSE "DESC"

CallHasToken == "paginationToken" \in DOMAIN callParams

CallHasNoRange ==
    "fromBlock" \notin DOMAIN callParams /\ "toBlock" \notin DOMAIN callParams

C17_OnePostNoRetry ==
    /\ callPosts <= 1
    /\ callPc # "ready" => callPosts = 1
    /\ callPc = "netfailed" =>
          /\ callOutcome.kind = "thrown"
          /\ callOutcome.error = [kind |-> "AxiosError", message |-> "Network Error"]
    /\ callPc = "returned" =>
          /\ "error" \notin DOMAIN callResponse
          /\ callOutcome.kind = "returned"
          /\ callOutcome.result = callResponse.result

C17_Witness ==
    /\ callPc = "netfailed"
    /\ callPosts = 1
    /\ callOutcome.kind = "thrown"

(***************************************************************************)
(* Further properties of the pagination walk                               *)
(***************************************************************************)
\* the number of requests a walk makes, from the shape of the server alone:
\* up to the failing page, the last page or the third page
ExpectedRequests ==
    IF server.failAt \in 1..Min(server.numPages, 3)
      THEN server.failAt
      ELSE Min(server.numPages, 3)

\* C16: every non-null token the walk sends is one an earlier response
\* carried, unchanged; how many requests it makes and which pages it collects
\* follows from which pages carry a null token (and which one fails), not from
\* what the tokens contain.
C16_TokenOpaque ==
    /\ \A k \in 1..Len(requests) :
          requests[k].params.paginationToken # Null =>
              \E j \in 1..(k - 1) :
                  /\ IsResult(responses[j])
                  /\ responses[j].result.paginationToken
                        = requests[k].params.paginationToken
    /\ pc \in {"done", "failed"} =>
          /\ Len(requests) = ExpectedRequests
          /\ Len(served) = IF pc = "failed" THEN ExpectedRequests - 1
                                            ELSE ExpectedRequests
          /\ served = [k \in 1..Len(served) |-> k]
          /\ allTransactions = ConcatPages(server, Len(served))

C16_Witness ==
    /\ pc = "done"
    /\ server.tokenSeed = 1
    /\ Len(requests) = 3
    /\ requests[3].params.paginationToken = <<3, 2>>

\* C18 as stated: the error raised for an error response carries the code and
\* the message of the response's error object.
C18_Original ==
    (pc = "failed" /\ server.failure.kind = "rpc") =>
        /\ thrown.message = LastResponse.error.message
        /\ "code" \in DOMAIN thrown
        /\ thrown.code = LastResponse.error.code

\* a response that is neither a result with token nor an error was received
MalformedReceived ==
    \E k \in 1..Len(responses) : "malformed" \in DOMAIN responses[k]

\* C19 as stated: once a malformed response was received the walk has failed
\* with an error; it has not completed and it sends no token the server did
\* not issue.
C19_Original ==
    MalformedReceived =>
        /\ pc = "failed"
        /\ thrown # NoError
        /\ ~completed

\* requests issued and not yet answered or failed
InFlight ==
    Len(requests) - Len(responses)
        - (IF thrown.kind = "AxiosError" THEN 1 ELSE 0)

C23_Original ==
    \E k \in 0..server.numPages :
        allTransactions = IF k = 0 THEN <<>> ELSE PageRecords(server, k)

\* the walk has stopped while the server still offered a token
StoppedEarly == pc = "done" /\ paginationToken # Null

DefaultWindowApplied ==
    callPc = "returned" /\ callResolved.window.source = "default"

\* number of blocks in the window, both bounds counted
WindowBlocks(w) == w.to - w.from + 1

C29_Original ==
    \A k \in 1..Len(requests) :
        "paginationToken" \in DOMAIN requests[k].params =>
            /\ k > 1
            /\ IsResult(responses[k - 1])
            /\ responses[k - 1].result.paginationToken # Null

(***************************************************************************)
(* Properties of the retry wrappers                                        *)
(***************************************************************************)
\* C27: a retry wrapper never changes the params it was given, and every
\* request it issues, first attempt or retry, carries exactly those params:
\* the same filter and the same paginationToken.
C27_RetrySameRequest ==
    [][ /\ retryParams' = retryParams
        /\ \A k \in 1..Len(attempts') : attempts'[k] = retryParams
        /\ (retryPc = "await" /\ retryPc' = "call") => attempts' = attempts
      ]_vars

C27_Witness ==
    /\ policy = "fetchWithRateLimit"
    /\ retryPc = "returned"
    /\ Len(attempts) = 3
    /\ retryParams.paginationToken # Null
    /\ attempts[3].paginationToken = retryParams.paginationToken

(***************************************************************************)
(* Properties of ResumableDownloader                                       *)
(***************************************************************************)
\* concatenation of the records of pages a..b, in server order
RECURSIVE ConcatRange(_, _, _)
ConcatRange(srv, a, b) ==
    IF b < a THEN <<>> ELSE ConcatRange(srv, a, b - 1) \o PageRecords(srv, b)

\* number of batches run r has processed and saved
RECURSIVE RunCount(_, _)
RunCount(r, n) ==
    IF n = 0 THEN 0
    ELSE RunCount(r, n - 1)
           + (IF processed[n].run = r /\ processed[n].saved THEN 1 ELSE 0)

\* the records run r has processed, in order
RECURSIVE RunRecords(_, _)
RunRecords(r, n) ==
    IF n = 0 THEN <<>>
    ELSE RunRecords(r, n - 1)
           \o (IF processed[n].run = r THEN processed[n].transactions ELSE <<>>)

\* the requests of run r, in order
RunSent(r) == SelectSeq(dlSent, LAMBDA q : q.run = r)

\* C24: a second start that takes up the token returned with page k of the
\* first one (1 <= k < N) and runs to the end yields exactly the records of
\* pages k+1..N, in the same order.
C24_Restartable ==
    LET k == RunCount(1, Len(processed))
    IN (runs = 2 /\ dlPc = "done" /\ k >= 1 /\ k < server.numPages) =>
          /\ RunSent(2)[1].params.paginationToken = PageToken(server, k)
          /\ RunRecords(2, Len(processed)) = ConcatRange(server, k + 1, server.numPages)
          /\ Len(RunSent(2)) = server.numPages - k

C24_Witness ==
    /\ runs = 2
    /\ dlPc = "done"
    /\ server.numPages = 4
    /\ RunCount(1, Len(processed)) = 2
    /\ Len(RunRecords(2, Len(processed))) = 2 * MaxPageLen

\* C30: download-state.json changes only in the step that ends a page that
\* was fetched and processed, and then holds the token of that page and the
\* count including it; every stop leaves the file as it was, and a failing
\* fetch or a failing processBatch leaves the state as it was too.
C30_LastGoodCursor ==
    [][ /\ file' # file =>
              /\ dlPc = "process"
              /\ dlPc' \in {"fetch", "done"}
              /\ Len(processed') = Len(processed) + 1
              /\ file' = [paginationToken |-> batch.paginationToken,
                          downloadedCount |->
                              state.downloadedCount + Len(batch.transactions)]
        /\ (dlPc' = "stopped" /\ dlPc # "stopped") =>
              /\ file' = file
              /\ processed' = processed => state' = state
        /\ dlPc = "stopped" => dlSent' = dlSent
      ]_vars

C30_Witness ==
    /\ dlPc = "stopped"
    /\ runs = 1
    /\ file # NoFile
    /\ file.paginationToken = PageToken(server, 2)
    /\ file.paginationToken # Null
    /\ batch.paginationToken = PageToken(server, 3)
    /\ file.downloadedCount = 2 * MaxPageLen

(***************************************************************************)
(* Properties of parallelPagination                                        *)
(***************************************************************************)
\* the responses a downloadRange call for range i gets when it runs alone,
\* from token tok on
RECURSIVE SoloPages(_, _)
SoloPages(i, tok) ==
    LET response == RangeResponse(dataset, pageCap, RangeParams(BlockRanges[i], tok))
    IN IF response.paginationToken = Null
         THEN <<response>>
         ELSE <<response>> \o SoloPages(i, response.paginationToken)

\* the records of the first n of a sequence of responses, in order
RECURSIVE RecordsOf(_, _)
RecordsOf(pages, n) ==
    IF n = 0 THEN <<>> ELSE RecordsOf(pages, n - 1) \o pages[n].transactions

\* C21: under every interleaving each downloadRange call sends, after its
\* first request, only the token of its own previous response, receives the
\* pages it receives when it runs alone and holds exactly their records.
C21_ShardsIndependent ==
    \A i \in Shards :
        /\ \A k \in 1..Len(shardSent[i]) :
              shardSent[i][k].paginationToken
                 = IF k = 1 THEN Null ELSE shardGot[i][k - 1].paginationToken
        /\ Len(shardGot[i]) <= Len(SoloPages(i, Null))
        /\ shardGot[i] = SubSeq(SoloPages(i, Null), 1, Len(shardGot[i]))
        /\ shardAll[i] = RecordsOf(SoloPages(i, Null), Len(shardGot[i]))
        /\ shardPc[i] = "done" => Len(shardGot[i]) = Len(SoloPages(i, Null))

C21_Witness ==
    /\ shardPc[1] = "done"
    /\ shardPc[2] = "await"
    /\ Len(shardGot[2]) = 2
    /\ Len(shardGot[3]) = 0
    /\ Len(shardAll[1]) = 3
    /\ shardToken[2] # Null

\* the elements of a sequence
Elements(seq) == { seq[k] : k \in 1..Len(seq) }

\* no element occurs twice
NoDuplicates(seq) == \A j, k \in 1..Len(seq) : seq[j] = seq[k] => j = k

\* C22 as stated: the combined result holds no transaction twice and exactly
\* the transactions of the overall range.
C22_Original ==
    results.resolved =>
        /\ NoDuplicates(results.all)
        /\ Elements(results.all)
              = { r \in dataset : /\ BlockRanges[1].from <= r[1]
                                  /\ r[1] <= BlockRanges[3].to }

\* each record comes before the next one in the given sort order
StrictlyOrdered(seq, sort) ==
    \A k \in 1..(Len(seq) - 1) : Precedes(seq[k], seq[k + 1], sort)

\* the records a walk over range i with the given sort collects
SortedWalk(i, sort) ==
    LET RECURSIVE Walk(_)
        Walk(tok) ==
            LET response == RangeResponse(dataset, pageCap,
                                ("sort" :> sort) @@ RangeParams(BlockRanges[i], tok))
            IN IF response.paginationToken = Null
                 THEN response.transactions
                 ELSE response.transactions \o Walk(response.paginationToken)
    IN Walk(Null)

RECURSIVE RecordsReceived(_)
RecordsReceived(n) ==
    IF n = 0 THEN 0
    ELSE RecordsReceived(n - 1)
           + (IF IsResult(responses[n]) THEN Len(responses[n].result.data) ELSE 0)

\* C37: the walk never issues more than 3 requests; pageCount is the number
\* of requests issued; when the walk has stopped, the total it reports, the
\* length of allTransactions, is the sum of the record counts of the pages
\* it received.
C37_AtMostThreeRequests ==
    /\ Len(requests) <= 3
    /\ pageCount = Len(requests)
    /\ pc \in {"done", "failed"} =>
          Len(allTransactions) = RecordsReceived(Len(responses))

C37_Witness ==
    /\ pc = "done"
    /\ completed
    /\ server.numPages = 4
    /\ pageCount = 3
    /\ Len(allTransactions) = 3 * MaxPageLen
    /\ RecordsReceived(Len(responses)) = 3 * MaxPageLen

\* the slot the default window of the call is anchored to
AnchorSlot ==
    IF CallHasToken THEN callParams.paginationToken[1]
    ELSE IF CallSortAsked = "DESC" THEN chain.latestSlot
    ELSE chain.firstIndexedSlot

RetryEnded == retryPc \in {"returned", "thrown"}

C33_RobustBounded ==
    policy = "robustFetchSignatures" =>
        /\ Len(attempts) <= MAX_RETRIES
        /\ retries <= Len(attempts)
        /\ retryPc = "call" => retries = Len(attempts)
        /\ (retryPc = "returned" /\ retryOutcome.value # "undefined") =>
              /\ retryOutcome.value = <<"result of request", Len(attempts)>>
              /\ retries = Len(attempts) - 1
        /\ RetryEnded => ~ENABLED RetryNext

C33_Witness ==
    /\ policy = "robustFetchSignatures"
    /\ retryPc = "returned"
    /\ Len(attempts) = 3
    /\ retryOutcome.value = <<"result of request", 3>>
    /\ waits = <<5000, 2000>>

\* C34 as stated: robustFetchSignatures ends either by returning a response
\* result or by throwing; it never returns without a result.
C34_Original ==
    (policy = "robustFetchSignatures" /\ RetryEnded) =>
        \/ retryOutcome.kind = "thrown"
        \/ /\ retryOutcome.kind = "returned"
           /\ retryOutcome.value # "undefined"

\* C35 as stated: in fetchPageWithRetry and robustFetchSignatures every wait
\* is twice the wait before it.
C35_Original ==
    policy \in {"fetchPageWithRetry", "robustFetchSignatures"} =>
        \A n \in 2..Len(waits) : waits[n] = 2 * waits[n - 1]

(***************************************************************************)
(* Exactly-once processing of ResumableDownloader                          *)
(***************************************************************************)
\* the batches processed so far, of all runs, in order
ProcessedBatches == [k \in 1..Len(processed) |-> processed[k].transactions]

\* number of records in the first n processed batches
RECURSIVE ProcessedRecords(_)
ProcessedRecords(n) ==
    IF n = 0 THEN 0
    ELSE ProcessedRecords(n - 1) + Len(processed[n].transactions)

\* C31 as stated: when a first run was interrupted and the second run has
\* finished, every page was processed exactly once, in order, and
\* downloadedCount is the number of records processed.
C31_Original ==
    (runs = 2 /\ dlPc = "done"
       /\ RunCount(1, Len(processed)) < server.numPages) =>
        /\ ProcessedBatches = [k \in 1..server.numPages |-> PageRecords(server, k)]
        /\ file.downloadedCount = ProcessedRecords(Len(processed))

(***************************************************************************)
(* Properties of monitorLatestTransactions                                 *)
(***************************************************************************)
\* the signatures handed to processTransactions in the first n calls, in order
RECURSIVE HandedSignatures(_)
HandedSignatures(n) ==
    IF n = 0 THEN <<>>
    ELSE HandedSignatures(n - 1)
           \o [k \in 1..Len(handed[n]) |-> handed[n][k].signature]

\* C36 as stated: no signature is handed to processTransactions more than
\* once.
C36_Original == NoDuplicates(HandedSignatures(Len(handed)))

====
